---- MODULE Spec2Model ----
(***************************************************************************)
(* Change-notification engine of the EpicMe journaling server.             *)
(*                                                                         *)
(*  - storage (entries, tags, entry/tag links) and its change fan-out      *)
(*  - resource capability flags recomputed by updateResources              *)
(*  - URI subscriptions and per-resource update notifications              *)
(*  - reconciliation of model-suggested tags (suggestTagsSampling)         *)
(*  - the render pipeline createWrappedVideo (mock and ffmpeg mode)        *)
(*  - the create_entry, delete_entry and delete_tag tool handlers          *)
(*  - the video-change source of the video module (subscribe,              *)
(*    notifySubscribers) with subscribers of any behaviour                 *)
(*                                                                         *)
(* The storage engine (agent.db) is an interface given by the              *)
(* specification: every committed write dispatches one ChangeSet to the    *)
(* registered listeners.  Tool calls are serialized by the caller          *)
(* (specification section 5): a write is issued when the listeners of the  *)
(* previous ChangeSet have finished.  SpecInterleave and SpecOverlap drop  *)
(* that serialization: tool calls run while a reconciliation awaits its    *)
(* sampling response, and writes are dispatched while an updateResources   *)
(* call is suspended on a read.                                            *)
(***************************************************************************)
EXTENDS Integers, Sequences, FiniteSets, TLC

\* ------------------------------------------------------------------ bounds
MaxEntryId == 1
MaxTagId == 2
MaxVideos == 2
MaxResponseLen == 2
MaxMockStep == 3
MaxMarkers == 2
MaxCallbacks == 13
MaxListeners == 3

EntryIds == 1..MaxEntryId
TagIds == 1..MaxTagId
Names == {"a", "b", "brandnew"}
\* the name a create_tag call of the notification scenario gives its tag
NameFor(id) == IF id % 2 = 1 THEN "a" ELSE "b"
VideoNames == {<<"wrapped", y>> : y \in 1..MaxVideos}

\* ------------------------------------------------------------------- state
VARIABLES
    entries,          \* ids of the entry rows
    nextEntryId,      \* next id storage assigns to an entry
    tags,             \* tag rows: id -> name
    nextTagId,        \* next id storage assigns to a tag
    entryTags,        \* EntryTagLink rows <<entryId, tagId>>
    videos,           \* file names in ./videos
    uriSubscriptions, \* the subscribed URIs
    enabled,          \* enabled flag of each registered resource
    upd,              \* the updateResources call in flight
    run,              \* the subscription listener call in flight
    changes,          \* the ChangeSet (or video change) being processed
    updated,          \* notifications/resources/updated sent for it
    listChanged,      \* resources list-changed notifications sent for it
    flips,            \* enable()/disable() calls made for it
    stable,           \* URIs subscribed ever since it was dispatched
    rec,              \* the suggestTagsSampling call in flight
    job,              \* the createWrappedVideo call in flight
    tool,             \* the tool call in flight
    older,            \* an earlier updateResources call that is still in flight
    fan               \* the subscribers of the video module and its last dispatch

storeVars == <<entries, nextEntryId, tags, nextTagId, entryTags>>
busVars == <<upd, run, changes, updated, listChanged, flips, stable>>
vars == <<storeVars, videos, uriSubscriptions, enabled, busVars, rec, job, tool, older, fan>>

\* -------------------------------------------------------------------- URIs
\* `epicme://entries/${entryId}`, `epicme://tags/${tagId}`,
\* `epicme://videos/${video}`: scheme, collection, key.
EntryUri(entryId) == <<"epicme", "entries", entryId>>
TagUri(tagId) == <<"epicme", "tags", tagId>>
VideoUri(video) == <<"epicme", "videos", video>>

\* the URIs the client subscribes to and unsubscribes from
URIs == {EntryUri(1), TagUri(1), VideoUri(<<"wrapped", 1>>)}

EntryItem(entryId) == [uri |-> EntryUri(entryId), title |-> <<"Entry", entryId>>]
TagItem(tagId) == [uri |-> TagUri(tagId), title |-> <<"Tag", tagId>>]
VideoItem(video) == [uri |-> VideoUri(video), title |-> <<"Video", video>>]

RECURSIVE SetToSeq(_)
\* the order in which a directory listing returns its names
SetToSeq(S) ==
    IF S = {} THEN <<>>
    ELSE LET x == CHOOSE y \in S : TRUE
         IN  <<x>> \o SetToSeq(S \ {x})

Count(s, u) == Cardinality({i \in 1..Len(s) : s[i].uri = u})

\* ----------------------------------------------------------------- storage
\* ChangeSet of one committed write
ChangeSet(es, ts) == [kind |-> "db", entries |-> es, tags |-> ts]
NoChange == [kind |-> "none", entries |-> <<>>, tags |-> <<>>]
VideoChange == [kind |-> "video", entries |-> <<>>, tags |-> <<>>]

Remove(f, k) == [i \in DOMAIN f \ {k} |-> f[i]]
Put(f, k, v) == [i \in DOMAIN f \cup {k} |-> IF i = k THEN v ELSE f[i]]
NameInUse(name) == \E t \in DOMAIN tags : tags[t] = name

\* ------------------------------------------------------ updateResources
IdleUpd == [pc |-> "idle", nEntries |-> 0, nTags |-> 0]

\* enable()/disable() called without looking at the current flag
setEnabledUnguarded(flag, cond) == [enabled |-> cond, calls |-> 1]

\* if (cond) { if (!r.enabled) r.enable() } else { if (r.enabled) r.disable() }
setEnabled(flag, cond) ==
    IF cond
    THEN IF ~flag THEN [enabled |-> TRUE, calls |-> 1]
                  ELSE [enabled |-> flag, calls |-> 0]
    ELSE IF flag THEN [enabled |-> FALSE, calls |-> 1]
                 ELSE [enabled |-> flag, calls |-> 0]

\* updateResources with the entry resource keyed on the tag count
updateResourcesWrongCount(en, nEntries, nTags, nVideos) ==
    LET tl == setEnabled(en.tagListResource, nTags > 0)
        tg == setEnabled(en.tagsResource, nTags > 0)
        er == setEnabled(en.entryResource, nTags > 0)
        vr == setEnabled(en.videoResource, nVideos > 0)
    IN  [enabled |-> [tagListResource |-> tl.enabled,
                      tagsResource |-> tg.enabled,
                      entryResource |-> er.enabled,
                      videoResource |-> vr.enabled],
         calls |-> tl.calls + tg.calls + er.calls + vr.calls]

\* the body of updateResources after its three reads
updateResources(en, nEntries, nTags, nVideos) ==
    LET tl == setEnabled(en.tagListResource, nTags > 0)
        tg == setEnabled(en.tagsResource, nTags > 0)
        er == setEnabled(en.entryResource, nEntries > 0)
        vr == setEnabled(en.videoResource, nVideos > 0)
    IN  [enabled |-> [tagListResource |-> tl.enabled,
                      tagsResource |-> tg.enabled,
                      entryResource |-> er.enabled,
                      videoResource |-> vr.enabled],
         calls |-> tl.calls + tg.calls + er.calls + vr.calls]

\* a list-changed listener that sends nothing
sendResourceListChangedSkipped(n) == n

\* agent.db.subscribe(() => agent.mcp.sendResourceListChanged())
sendResourceListChanged(n) == n + 1

\* -------------------------------------------------- subscription listener
IdleRun == [pc |-> "idle", todo |-> <<>>]

\* a listener that notifies without consulting the subscribed set
hasUnchecked(subs, uri) == TRUE

\* uriSubscriptions.has(uri)
has(subs, uri) == uri \in subs

\* the two loops of the storage listener, in order
dbListenerItems(ch) ==
    [i \in 1..Len(ch.entries) |-> EntryItem(ch.entries[i])]
      \o [i \in 1..Len(ch.tags) |-> TagItem(ch.tags[i])]

\* the loop of the video listener over listVideos()
videoListenerItems(vs) ==
    LET s == SetToSeq(vs) IN [i \in 1..Len(s) |-> VideoItem(s[i])]

\* a listener that returns after its first notification
ScanReturnsEarly(todo, subs) ==
    LET hits == {i \in 1..Len(todo) : has(subs, todo[i].uri)}
    IN  IF hits = {}
        THEN [sent |-> <<>>, run |-> IdleRun]
        ELSE LET i == CHOOSE j \in hits : \A k \in hits : j <= k
             IN  [sent |-> <<todo[i]>>, run |-> [pc |-> "scan", todo |-> <<>>]]

\* A listener runs until its next await: it skips the items whose URI is
\* not subscribed and sends the notification of the first one that is.
Scan(todo, subs) ==
    LET hits == {i \in 1..Len(todo) : has(subs, todo[i].uri)}
    IN  IF hits = {}
        THEN [sent |-> <<>>, run |-> IdleRun]
        ELSE LET i == CHOOSE j \in hits : \A k \in hits : j <= k
             IN  [sent |-> <<todo[i]>>,
                  run |-> [pc |-> "scan", todo |-> SubSeq(todo, i + 1, Len(todo))]]

Quiescent == upd.pc = "idle" /\ run.pc = "idle"

\* storage invokes every listener with the ChangeSet: the list-changed
\* listener, updateResources (up to its first read) and the subscription
\* listener (up to its first notification)
Dispatch(ch) ==
    LET sc == Scan(dbListenerItems(ch), uriSubscriptions)
    IN  /\ changes' = ch
        /\ listChanged' = sendResourceListChanged(0)
        /\ flips' = 0
        /\ upd' = [pc |-> "getEntries", nEntries |-> 0, nTags |-> 0]
        /\ updated' = sc.sent
        /\ run' = sc.run
        /\ stable' = uriSubscriptions

\* ------------------------------------------------------------ storage writes
createEntry ==
    /\ Quiescent /\ rec.pc = "idle"
    /\ nextEntryId <= MaxEntryId
    /\ entries' = entries \cup {nextEntryId}
    /\ nextEntryId' = nextEntryId + 1
    /\ Dispatch(ChangeSet(<<nextEntryId>>, <<>>))
    /\ UNCHANGED <<tags, nextTagId, entryTags, videos, uriSubscriptions, enabled, rec, job, tool, older, fan>>

updateEntry(id) ==
    /\ Quiescent /\ rec.pc = "idle"
    /\ id \in entries
    /\ Dispatch(ChangeSet(<<id>>, <<>>))
    /\ UNCHANGED <<storeVars, videos, uriSubscriptions, enabled, rec, job, tool, older, fan>>

deleteEntry(id) ==
    /\ Quiescent /\ rec.pc = "idle"
    /\ id \in entries
    /\ entries' = entries \ {id}
    /\ entryTags' = {l \in entryTags : l[1] # id}
    /\ Dispatch(ChangeSet(<<id>>, <<>>))
    /\ UNCHANGED <<nextEntryId, tags, nextTagId, videos, uriSubscriptions, enabled, rec, job, tool, older, fan>>

createTag(name) ==
    /\ Quiescent /\ rec.pc = "idle"
    /\ nextTagId <= MaxTagId
    /\ ~NameInUse(name)
    /\ tags' = Put(tags, nextTagId, name)
    /\ nextTagId' = nextTagId + 1
    /\ Dispatch(ChangeSet(<<>>, <<nextTagId>>))
    /\ UNCHANGED <<entries, nextEntryId, entryTags, videos, uriSubscriptions, enabled, rec, job, tool, older, fan>>

updateTag(id) ==
    /\ Quiescent /\ rec.pc = "idle"
    /\ id \in DOMAIN tags
    /\ Dispatch(ChangeSet(<<>>, <<id>>))
    /\ UNCHANGED <<storeVars, videos, uriSubscriptions, enabled, rec, job, tool, older, fan>>

deleteTag(id) ==
    /\ Quiescent /\ rec.pc = "idle"
    /\ id \in DOMAIN tags
    /\ tags' = Remove(tags, id)
    /\ entryTags' = {l \in entryTags : l[2] # id}
    /\ Dispatch(ChangeSet(<<>>, <<id>>))
    /\ UNCHANGED <<entries, nextEntryId, nextTagId, videos, uriSubscriptions, enabled, rec, job, tool, older, fan>>

addTagToEntry(entryId, tagId) ==
    /\ Quiescent /\ rec.pc = "idle"
    /\ entryId \in entries /\ tagId \in DOMAIN tags
    /\ <<entryId, tagId>> \notin entryTags
    /\ entryTags' = entryTags \cup {<<entryId, tagId>>}
    /\ Dispatch(ChangeSet(<<entryId>>, <<tagId>>))
    /\ UNCHANGED <<entries, nextEntryId, tags, nextTagId, videos, uriSubscriptions, enabled, rec, job, tool, older, fan>>

\* ------------------------------------------------- updateResources steps
updGetEntries ==
    /\ upd.pc = "getEntries"
    /\ upd' = [upd EXCEPT !.pc = "getTags", !.nEntries = Cardinality(entries)]
    /\ UNCHANGED <<storeVars, videos, uriSubscriptions, enabled, run, changes,
                   updated, listChanged, flips, stable, rec, job, tool, older, fan>>

updGetTags ==
    /\ upd.pc = "getTags"
    /\ upd' = [upd EXCEPT !.pc = "listVideos", !.nTags = Cardinality(DOMAIN tags)]
    /\ UNCHANGED <<storeVars, videos, uriSubscriptions, enabled, run, changes,
                   updated, listChanged, flips, stable, rec, job, tool, older, fan>>

updListVideos ==
    /\ upd.pc = "listVideos"
    /\ LET r == updateResources(enabled, upd.nEntries, upd.nTags, Cardinality(videos))
       IN  /\ enabled' = r.enabled
           /\ flips' = flips + r.calls
    /\ upd' = IdleUpd
    /\ UNCHANGED <<storeVars, videos, uriSubscriptions, run, changes,
                   updated, listChanged, stable, rec, job, tool, older, fan>>

\* ------------------------------------------- subscription listener steps
listenerResume ==
    /\ run.pc = "scan"
    /\ LET sc == Scan(run.todo, uriSubscriptions)
       IN  /\ updated' = updated \o sc.sent
           /\ run' = sc.run
    /\ UNCHANGED <<storeVars, videos, uriSubscriptions, enabled, upd, changes,
                   listChanged, flips, stable, rec, job, tool, older, fan>>

videoListenerListed ==
    /\ run.pc = "listVideos"
    /\ LET sc == Scan(videoListenerItems(videos), uriSubscriptions)
       IN  /\ updated' = updated \o sc.sent
           /\ run' = sc.run
    /\ UNCHANGED <<storeVars, videos, uriSubscriptions, enabled, upd, changes,
                   listChanged, flips, stable, rec, job, tool, older, fan>>

\* ------------------------------------------------- subscribe / unsubscribe
\* a subscribe that removes a URI that is already subscribed
uriAddToggle(subs, uri) == IF uri \in subs THEN subs \ {uri} ELSE subs \cup {uri}

\* uriSubscriptions.add(uri)
uriAdd(subs, uri) == subs \cup {uri}

\* uriSubscriptions.delete(uri)
uriDelete(subs, uri) == subs \ {uri}

subscribe(uri) ==
    /\ uriSubscriptions' = uriAdd(uriSubscriptions, uri)
    /\ UNCHANGED <<storeVars, videos, enabled, upd, run, changes, updated,
                   listChanged, flips, stable, rec, job, tool, older, fan>>

unsubscribe(uri) ==
    /\ uriSubscriptions' = uriDelete(uriSubscriptions, uri)
    /\ stable' = stable \ {uri}
    /\ UNCHANGED <<storeVars, videos, enabled, upd, run, changes, updated,
                   listChanged, flips, rec, job, tool, older, fan>>

\* ------------------------------------------------------------ video change
\* a render job wrote ./videos/<video> and called notifySubscribers()
videoChanged(video) ==
    /\ Quiescent /\ rec.pc = "idle"
    /\ videos' = videos \cup {video}
    /\ changes' = VideoChange
    /\ listChanged' = sendResourceListChanged(0)
    /\ flips' = 0
    /\ updated' = <<>>
    /\ run' = [pc |-> "listVideos", todo |-> <<>>]
    /\ stable' = uriSubscriptions
    /\ UNCHANGED <<storeVars, uriSubscriptions, enabled, upd, rec, job, tool, older, fan>>

\* ==================================================================
\* Tag suggestion reconciliation: suggestTagsSampling
\* ==================================================================
\* Elements a model response can hold once it is parsed as JSON:
\*   {id: n}, {name: s, description?}, {id: n, name: s}, and anything else.
Element(kind, id, name) == [kind |-> kind, id |-> id, name |-> name]
RefIds == 1..(MaxTagId + 1)
Elements ==
    {Element("id", n, "") : n \in RefIds}
      \cup {Element("name", 0, s) : s \in Names}
      \cup {Element("both", 1, "brandnew"), Element("bad", 0, "")}

RECURSIVE SeqsUpTo(_, _)
SeqsUpTo(S, n) ==
    IF n = 0 THEN {<<>>}
    ELSE LET shorter == SeqsUpTo(S, n - 1)
         IN  shorter \cup {Append(q, x) : q \in {r \in shorter : Len(r) = n - 1}, x \in S}

\* the text of the model response: not JSON, JSON that is not an array, or
\* a JSON array
NotJson == [json |-> FALSE, array |-> FALSE, elems |-> <<>>]
NotArray == [json |-> TRUE, array |-> FALSE, elems |-> <<>>]
Responses ==
    {NotJson, NotArray}
      \cup {[json |-> TRUE, array |-> TRUE, elems |-> q] : q \in SeqsUpTo(Elements, MaxResponseLen)}

Range(q) == {q[i] : i \in 1..Len(q)}
NoDuplicates(q) == \A i, j \in 1..Len(q) : q[i] = q[j] => i = j

\* a parser that turns text that is not JSON into one new-tag suggestion
JSONparseLenient(response) ==
    IF response.json THEN [ok |-> TRUE, value |-> response]
    ELSE [ok |-> TRUE,
          value |-> [json |-> TRUE, array |-> TRUE,
                     elems |-> <<Element("name", 0, "brandnew")>>]]

\* JSON.parse(modelResponse): throws on text that is not JSON
JSONparse(response) ==
    IF response.json THEN [ok |-> TRUE, value |-> response]
    ELSE [ok |-> FALSE, value |-> response]

\* z.union([existingTagSchema, newTagSchema]) on one element: the first
\* schema that matches wins and strips the keys it does not know
unionParse(e) ==
    IF e.kind \in {"id", "both"} THEN [ok |-> TRUE, tag |-> Element("id", e.id, "")]
    ELSE IF e.kind = "name" THEN [ok |-> TRUE, tag |-> Element("name", 0, e.name)]
    ELSE [ok |-> FALSE, tag |-> e]

\* a schema that drops the elements matching neither variant
responseSchemaParseFailOpen(value) ==
    IF ~value.array THEN [ok |-> FALSE, tags |-> <<>>]
    ELSE LET valid == SelectSeq(value.elems, LAMBDA e : unionParse(e).ok)
         IN  [ok |-> TRUE, tags |-> [i \in 1..Len(valid) |-> unionParse(valid[i]).tag]]

\* responseSchema.parse(value) with responseSchema = z.array(z.union([...])):
\* throws unless the value is an array all of whose elements match
responseSchemaParse(value) ==
    IF ~value.array THEN [ok |-> FALSE, tags |-> <<>>]
    ELSE IF \E i \in 1..Len(value.elems) : ~unionParse(value.elems[i]).ok
         THEN [ok |-> FALSE, tags |-> <<>>]
         ELSE [ok |-> TRUE,
               tags |-> [i \in 1..Len(value.elems) |-> unionParse(value.elems[i]).tag]]

\* name-based suggestions that match an existing tag become references
resolvedTags(suggestedTags, existingTags) ==
    [i \in 1..Len(suggestedTags) |->
        LET tag == suggestedTags[i]
        IN  IF tag.kind = "name" /\ \E t \in DOMAIN existingTags : existingTags[t] = tag.name
            THEN Element("id", (CHOOSE t \in DOMAIN existingTags : existingTags[t] = tag.name), "")
            ELSE tag]

\* a reference is accepted whether or not the tag exists
isExistingTagSuggestionUnchecked(tag, existingTags, currentTags) ==
    /\ tag.kind = "id"
    /\ ~(\E t \in currentTags : t = tag.id)

isExistingTagSuggestion(tag, existingTags, currentTags) ==
    /\ tag.kind = "id"
    /\ \E t \in DOMAIN existingTags : t = tag.id
    /\ ~(\E t \in currentTags : t = tag.id)

isNewTagSuggestion(tag, existingTags) ==
    /\ tag.kind = "name"
    /\ \A t \in DOMAIN existingTags : existingTags[t] # tag.name

\* Set.add
SetAdd(q, x) == IF x \in Range(q) THEN q ELSE Append(q, x)

RECURSIVE SetOf(_)
\* new Set(array), in insertion order
SetOf(q) == IF q = <<>> THEN <<>> ELSE SetAdd(SetOf(SubSeq(q, 1, Len(q) - 1)), q[Len(q)])

\* a creation loop that forgets the id createTag returned
addCreatedIdForgotten(idsToAdd, newTagId) == idsToAdd

\* idsToAdd.add(newTag.id)
addCreatedId(idsToAdd, newTagId) == SetAdd(idsToAdd, newTagId)

\* parseAndProcessTagSuggestions up to its first createTag call
parseAndProcessTagSuggestions(modelResponse, existingTags, currentTags) ==
    LET json == JSONparse(modelResponse)
        parsed == IF json.ok THEN responseSchemaParse(json.value)
                  ELSE [ok |-> FALSE, tags |-> <<>>]
        resolved == resolvedTags(parsed.tags, existingTags)
        suggestedNewTags == SelectSeq(resolved, LAMBDA tag : isNewTagSuggestion(tag, existingTags))
        suggestedExistingTags ==
            SelectSeq(resolved, LAMBDA tag : isExistingTagSuggestion(tag, existingTags, currentTags))
    IN  [ok |-> parsed.ok,
         suggestedNewTags |-> [i \in 1..Len(suggestedNewTags) |-> suggestedNewTags[i].name],
         idsToAdd |-> SetOf([i \in 1..Len(suggestedExistingTags) |-> suggestedExistingTags[i].id])]

getEntryTags(entryId) == {l[2] : l \in {m \in entryTags : m[1] = entryId}}

Terminal == rec.pc \in {"done", "rejected"}

\* no suggestTagsSampling call has been made
IdleRec ==
    [pc |-> "idle", entryId |-> 0,
     existingTags |-> <<>>, currentTags |-> {},
     modelResponse |-> NotJson,
     suggestedNewTags |-> <<>>, idsToAdd |-> <<>>, next |-> 1,
     createCalls |-> <<>>, createdIds |-> {}, addCalls |-> <<>>,
     logged |-> FALSE]

\* suggestTagsSampling(agent, entryId), called for an entry just created
recStart(entryId, sampling) ==
    /\ rec.pc = "idle" /\ Quiescent
    /\ entryId \in entries
    /\ rec' = [IdleRec EXCEPT !.pc = IF sampling THEN "getEntry" ELSE "skipped",
                               !.entryId = entryId]
    /\ UNCHANGED <<storeVars, videos, uriSubscriptions, enabled, busVars, job, tool, older, fan>>

\* const entry = await agent.db.getEntry(entryId); invariant(entry, ...)
recGetEntry ==
    /\ rec.pc = "getEntry"
    /\ rec' = [rec EXCEPT !.pc = IF rec.entryId \in entries THEN "getTags" ELSE "rejected"]
    /\ UNCHANGED <<storeVars, videos, uriSubscriptions, enabled, busVars, job, tool, older, fan>>

\* const existingTags = await agent.db.getTags()
recGetTags ==
    /\ rec.pc = "getTags"
    /\ rec' = [rec EXCEPT !.pc = "getEntryTags", !.existingTags = tags]
    /\ UNCHANGED <<storeVars, videos, uriSubscriptions, enabled, busVars, job, tool, older, fan>>

\* const currentTags = await agent.db.getEntryTags(entry.id), then createMessage
recGetEntryTags ==
    /\ rec.pc = "getEntryTags"
    /\ rec' = [rec EXCEPT !.pc = "createMessage", !.currentTags = getEntryTags(rec.entryId)]
    /\ UNCHANGED <<storeVars, videos, uriSubscriptions, enabled, busVars, job, tool, older, fan>>

\* the sampling response arrives: parse, resolve and partition it; a failure
\* is logged by the catch handler and thrown again
recCreateMessage(modelResponse) ==
    /\ rec.pc = "createMessage"
    /\ LET r == parseAndProcessTagSuggestions(modelResponse, rec.existingTags, rec.currentTags)
       IN  rec' = [rec EXCEPT
                     !.modelResponse = modelResponse,
                     !.suggestedNewTags = r.suggestedNewTags,
                     !.idsToAdd = r.idsToAdd,
                     !.logged = ~r.ok,
                     !.pc = IF ~r.ok THEN "rejected"
                            ELSE IF Len(r.suggestedNewTags) > 0 THEN "createTag"
                            ELSE "addTagToEntry"]
    /\ UNCHANGED <<storeVars, videos, uriSubscriptions, enabled, busVars, job, tool, older, fan>>

\* a catch handler that logs the failure and goes on to the attach loop
catchAndContinue(r) == [r EXCEPT !.pc = "addTagToEntry", !.logged = TRUE]

\* .catch((error) => { ...sendLoggingMessage...; throw error })
catchAndRethrow(r) == [r EXCEPT !.pc = "rejected", !.logged = TRUE]

\* const newTag = await agent.db.createTag(tag); idsToAdd.add(newTag.id)
recCreateTag ==
    /\ rec.pc = "createTag" /\ Quiescent
    /\ LET name == Head(rec.suggestedNewTags)
           rest == Tail(rec.suggestedNewTags)
       IN  IF NameInUse(name)
           THEN /\ rec' = catchAndRethrow([rec EXCEPT !.createCalls = Append(@, name)])
                /\ UNCHANGED <<storeVars, busVars>>
           ELSE /\ tags' = Put(tags, nextTagId, name)
                /\ nextTagId' = nextTagId + 1
                /\ Dispatch(ChangeSet(<<>>, <<nextTagId>>))
                /\ rec' = [rec EXCEPT
                             !.suggestedNewTags = rest,
                             !.createCalls = Append(@, name),
                             !.createdIds = @ \cup {nextTagId},
                             !.idsToAdd = addCreatedId(@, nextTagId),
                             !.pc = IF rest = <<>> THEN "addTagToEntry" ELSE "createTag"]
                /\ UNCHANGED <<entries, nextEntryId, entryTags>>
    /\ UNCHANGED <<videos, uriSubscriptions, enabled, job, tool, older, fan>>

\* for (const tagId of idsToAdd) await agent.db.addTagToEntry({entryId, tagId})
recAddTagToEntry ==
    /\ rec.pc = "addTagToEntry" /\ Quiescent
    /\ rec.next <= Len(rec.idsToAdd)
    /\ LET tagId == rec.idsToAdd[rec.next]
       IN  IF rec.entryId \notin entries \/ tagId \notin DOMAIN tags
           THEN /\ rec' = [rec EXCEPT !.pc = "rejected", !.addCalls = Append(@, tagId)]
                /\ UNCHANGED <<storeVars, busVars>>
           ELSE /\ rec' = [rec EXCEPT !.next = @ + 1, !.addCalls = Append(@, tagId)]
                /\ IF <<rec.entryId, tagId>> \in entryTags
                   THEN UNCHANGED <<storeVars, busVars>>
                   ELSE /\ entryTags' = entryTags \cup {<<rec.entryId, tagId>>}
                        /\ Dispatch(ChangeSet(<<rec.entryId>>, <<tagId>>))
                        /\ UNCHANGED <<entries, nextEntryId, tags, nextTagId>>
    /\ UNCHANGED <<videos, uriSubscriptions, enabled, job, tool, older, fan>>

\* listTags, getEntry and the 'Added tags to entry' logging message
recFinish ==
    /\ rec.pc = "addTagToEntry"
    /\ rec.next > Len(rec.idsToAdd)
    /\ rec' = [rec EXCEPT !.pc = "done"]
    /\ UNCHANGED <<storeVars, videos, uriSubscriptions, enabled, busVars, job, tool, older, fan>>

\* ==================================================================
\* Render pipeline: createWrappedVideo
\*   impl "video": createWrappedVideo of the video module
\*   impl "tools": createWrappedVideo of the finished tools module
\* ==================================================================
Impls == {"video", "tools"}
Modes == {"mock", "real"}

\* progress values are fractions num/den of non-negative integers
Frac(num, den) == [num |-> num, den |-> den]
Zero == Frac(0, 1)
One == Frac(1, 1)
Leq(p, q) == p.num * q.den <= q.num * p.den
Less(p, q) == p.num * q.den < q.num * p.den
\* Math.min
MathMin(p, q) == IF Less(p, q) THEN p ELSE q

\* const step = mockTime / 10
Steps == 10
\* i += 500
StepMs == 500
\* const totalDurationSeconds = 60 (video module), 60 * 2 (tools module)
totalDurationSeconds(impl) == IF impl = "video" THEN 60 ELSE 60 * 2

\* the largest duration, in multiples of the smallest positive number, whose
\* tenth is rounded to 0
SubnormalMockTime == 5

\* Mock durations of the video module, in units of the rounding error of the
\* accumulated sum i: a duration is Steps steps of at least two units, or so
\* small that mockTime / 10 is 0.
MockTimes == {Steps * s : s \in 2..MaxMockStep} \cup {SubnormalMockTime}
\* Math.random() * 1000 + 5000: a value in [5000, 6000)
WaitTimes == {5000, 5250, 5500, 5999}

\* the close event of the subprocess: exited with a status, or ended by a
\* signal (status null)
CloseEvent(exited, code) == [seen |-> TRUE, exited |-> exited, code |-> code]
NoClose == [seen |-> FALSE, exited |-> FALSE, code |-> 0]
ExitCodes == {0, 1, 2}

\* what the call settles with: the video URI or an error
Outcome(kind, close) == [kind |-> kind, close |-> close]
NoOutcome == Outcome("none", NoClose)
\* `epicme://videos/${videoFilename}`
UriOutcome == Outcome("uri", NoClose)
\* new Error('Cancelled'), new Error(`Creating Wrapped Video for ${year} was cancelled`)
Cancelled == Outcome("cancelled", NoClose)

\* an exit with a status other than 0 reported as a cancellation
exitErrorConflated(ev) == Cancelled

\* new Error(`ffmpeg exited with code ${code}`)
exitError(ev) == Outcome("failed", ev)

\* time=HH:MM:SS.FF printed by the subprocess
Marker(hours, minutes, seconds, fraction) ==
    [hours |-> hours, minutes |-> minutes, seconds |-> seconds, fraction |-> fraction]
Markers ==
    {Marker(0, 0, 0, 0), Marker(0, 0, 30, 50), Marker(0, 1, 0, 0),
     Marker(0, 2, 0, 0), Marker(0, 2, 0, 1), Marker(99, 99, 99, 99)}

\* hours * 3600 + minutes * 60 + seconds + fraction / 100
currentSeconds(m) ==
    Frac((m.hours * 3600 + m.minutes * 60 + m.seconds) * 100 + m.fraction, 100)

\* the elapsed fraction without the cap
stderrProgressUncapped(m, total) ==
    Frac(currentSeconds(m).num, currentSeconds(m).den * total)

\* Math.min(currentSeconds / totalDurationSeconds, 1)
stderrProgress(m, total) ==
    MathMin(Frac(currentSeconds(m).num, currentSeconds(m).den * total), One)

IdleJob ==
    [pc |-> "idle", impl |-> "video", mode |-> "mock",
     aborted |-> FALSE, listening |-> FALSE, killed |-> FALSE,
     i |-> 0, step |-> 0, limit |-> 0, short |-> FALSE,
     progress |-> <<>>, outcome |-> NoOutcome, close |-> NoClose]

Settled == job.pc \in {"returned", "rejected"}

\* if (signal.aborted) throw new Error('Cancelled')
throwCancelled(j) ==
    [j EXCEPT !.pc = "rejected", !.outcome = Cancelled, !.listening = FALSE]

\* a mock render that returns without its last progress report
mockFinishSilent(j) ==
    [j EXCEPT !.pc = "returned", !.outcome = UriOutcome, !.listening = FALSE]

\* onProgress(1); return the video URI
mockFinish(j) ==
    [j EXCEPT !.progress = Append(@, One),
              !.pc = "returned", !.outcome = UriOutcome, !.listening = FALSE]

\* the mock loop from its condition to the next await
mockLoop(j) ==
    IF j.i < j.limit
    THEN IF j.aborted THEN throwCancelled(j)
         ELSE IF ~Less(Frac(j.i, j.limit), One) THEN mockFinish(j)
         ELSE [j EXCEPT !.progress = Append(@, Frac(j.i, j.limit)), !.pc = "timer"]
    ELSE mockFinish(j)

\* i += step; in the video module the tenth sum may be rounded to one unit
\* below mockTime
nextI(j) ==
    IF j.short /\ j.i + j.step = j.limit THEN j.limit - 1 ELSE j.i + j.step

\* the abort event: signal.aborted becomes true and onAbort, if registered,
\* kills a spawned subprocess that is not killed yet
onAbort(j) ==
    [j EXCEPT !.aborted = TRUE,
              !.killed = IF j.listening /\ j.pc = "running" /\ ~j.killed THEN TRUE ELSE @]

\* the stderr handler on a chunk that holds a time marker
onStderr(j, m) ==
    [j EXCEPT !.progress = Append(@, stderrProgress(m, totalDurationSeconds(j.impl)))]

\* a close handler that looks at the exit status before the signal
onCloseExitFirst(j, ev) ==
    LET settled == [j EXCEPT !.close = ev, !.listening = FALSE]
    IN  IF ev.exited /\ ev.code = 0
        THEN [settled EXCEPT !.pc = "returned", !.outcome = UriOutcome,
                             !.progress = IF j.impl = "video" THEN Append(@, One) ELSE @]
        ELSE IF j.aborted
        THEN [settled EXCEPT !.pc = "rejected", !.outcome = Cancelled]
        ELSE [settled EXCEPT !.pc = "rejected", !.outcome = exitError(ev)]

\* ffmpeg.on('close', (code) => ...), then the rest of the call: the abort
\* listener is removed and the URI is returned
onClose(j, ev) ==
    LET settled == [j EXCEPT !.close = ev, !.listening = FALSE]
    IN  IF j.aborted
        THEN [settled EXCEPT !.pc = "rejected", !.outcome = Cancelled]
        ELSE IF ev.exited /\ ev.code = 0
        THEN [settled EXCEPT !.pc = "returned", !.outcome = UriOutcome,
                             !.progress = IF j.impl = "video" THEN Append(@, One) ELSE @]
        ELSE [settled EXCEPT !.pc = "rejected", !.outcome = exitError(ev)]

\* the close events a subprocess can end with
CloseEvents(j) ==
    {CloseEvent(TRUE, c) : c \in ExitCodes}
      \cup (IF j.killed THEN {CloseEvent(FALSE, 0)} ELSE {})

\* notifySubscribers() of the video module: the list-changed listener and the
\* video listener of the subscriptions (up to its await of listVideos)
notifySubscribers ==
    /\ changes' = VideoChange
    /\ listChanged' = sendResourceListChanged(0)
    /\ flips' = 0
    /\ updated' = <<>>
    /\ run' = [pc |-> "listVideos", todo |-> <<>>]
    /\ stable' = uriSubscriptions

\* a call of createWrappedVideo up to its first await
createWrappedVideo(impl, mode, aborted, limit, short) ==
    /\ job.pc \in {"idle", "returned", "rejected"}
    /\ Quiescent
    /\ LET j0 == [IdleJob EXCEPT !.impl = impl, !.mode = mode, !.aborted = aborted]
           j1 == [j0 EXCEPT !.listening = (impl = "tools")]
           jm == [j1 EXCEPT !.limit = limit, !.short = short,
                            !.step = IF impl = "video" THEN limit \div Steps ELSE StepMs]
       IN  job' = IF aborted THEN throwCancelled(j0)
                  ELSE IF mode = "mock" THEN mockLoop(jm)
                  ELSE [j1 EXCEPT !.pc = "mkdir"]
    /\ UNCHANGED <<storeVars, videos, uriSubscriptions, enabled, busVars, rec, tool, older, fan>>

\* the client cancels the request
abort ==
    /\ job.pc \in {"timer", "mkdir", "running"}
    /\ ~job.aborted
    /\ job' = onAbort(job)
    /\ UNCHANGED <<storeVars, videos, uriSubscriptions, enabled, busVars, rec, tool, older, fan>>

\* await new Promise((resolve) => setTimeout(resolve, step)) is over
timerFired ==
    /\ job.pc = "timer"
    /\ Len(job.progress) < MaxCallbacks
    /\ job' = mockLoop([job EXCEPT !.i = nextI(job)])
    /\ UNCHANGED <<storeVars, videos, uriSubscriptions, enabled, busVars, rec, tool, older, fan>>

\* await fs.mkdir is over: the subprocess is spawned, its handlers are set
\* and (video module) the abort listener is registered
mkdirDone ==
    /\ job.pc = "mkdir"
    /\ job' = [job EXCEPT !.pc = "running", !.listening = TRUE]
    /\ UNCHANGED <<storeVars, videos, uriSubscriptions, enabled, busVars, rec, tool, older, fan>>

\* the subprocess prints a time marker
stderrData(m) ==
    /\ job.pc = "running"
    /\ Len(job.progress) < MaxMarkers
    /\ job' = onStderr(job, m)
    /\ UNCHANGED <<storeVars, videos, uriSubscriptions, enabled, busVars, rec, tool, older, fan>>

\* const videoFilename = `wrapped-${year}.mp4`, for the year the calls ask for
videoFilename == <<"wrapped", 1>>

\* the subprocess has ended; after an exit with status 0 its output file is
\* in ./videos, and the video module notifies its subscribers
ffmpegClose(ev) ==
    /\ job.pc = "running"
    /\ ev \in CloseEvents(job)
    /\ job' = onClose(job, ev)
    /\ videos' = IF ev.exited /\ ev.code = 0 THEN videos \cup {videoFilename} ELSE videos
    /\ IF job'.outcome = UriOutcome /\ job.impl = "video"
       THEN notifySubscribers /\ UNCHANGED upd
       ELSE UNCHANGED busVars
    /\ UNCHANGED <<storeVars, uriSubscriptions, enabled, rec, tool, older, fan>>

\* ==================================================================
\* Tool calls of the finished tools module: create_entry, delete_entry,
\* delete_tag
\* ==================================================================
DeleteTools == {"delete_entry", "delete_tag"}

\* the result of elicitInput: its action and content.confirmed (true, false
\* or missing)
ElicitResult(action, confirmed) == [action |-> action, confirmed |-> confirmed]
ElicitResults ==
    {ElicitResult(a, c) : a \in {"accept", "decline", "cancel"},
                          c \in {"true", "false", "missing"}}
NoAnswer == ElicitResult("none", "missing")
ElicitError == ElicitResult("error", "missing")

\* a confirmation that looks at content.confirmed only
isConfirmedAnyAction(result) == result.confirmed = "true"

\* result.action === 'accept' && result.content?.confirmed === true
isConfirmed(result) == result.action = "accept" /\ result.confirmed = "true"

\* what the handler settles with: structuredContent with its success field,
\* or an error
ToolResult(kind, success) == [kind |-> kind, success |-> success]
NoResult == ToolResult("none", FALSE)
ToolError == ToolResult("error", FALSE)

IdleTool ==
    [name |-> "none", pc |-> "idle", id |-> 0, todo |-> <<>>,
     found |-> FALSE, elicitation |-> FALSE, answer |-> NoAnswer,
     deleteCalls |-> 0, result |-> NoResult]

ToolFree == tool.pc \in {"idle", "returned"}
\* no reconciliation has been started
RecInactive == rec.pc \in {"idle", "skipped"}

\* agent.db.getEntry(id) / agent.db.getTag(id) finds a row
Present(name, id) ==
    IF name = "delete_entry" THEN id \in entries ELSE id \in DOMAIN tags

\* await agent.db.deleteEntry(id) / await agent.db.deleteTag(id)
dbDelete(name, id) ==
    IF name = "delete_entry"
    THEN /\ entries' = entries \ {id}
         /\ entryTags' = {l \in entryTags : l[1] # id}
         /\ Dispatch(ChangeSet(<<id>>, <<>>))
         /\ UNCHANGED <<nextEntryId, tags, nextTagId>>
    ELSE /\ tags' = Remove(tags, id)
         /\ entryTags' = {l \in entryTags : l[2] # id}
         /\ Dispatch(ChangeSet(<<>>, <<id>>))
         /\ UNCHANGED <<entries, nextEntryId, nextTagId>>

\* the handler of delete_entry / delete_tag up to its await of elicitInput;
\* without the elicitation capability elicitConfirmation returns true and
\* the handler deletes
deleteTool(name, id, elicitation) ==
    /\ ToolFree /\ Quiescent /\ RecInactive
    /\ LET t == [IdleTool EXCEPT !.name = name, !.id = id,
                                  !.found = Present(name, id),
                                  !.elicitation = elicitation]
       IN  IF ~Present(name, id)
           THEN /\ tool' = [t EXCEPT !.pc = "returned", !.result = ToolError]
                /\ UNCHANGED <<storeVars, busVars>>
           ELSE IF ~elicitation
           THEN /\ tool' = [t EXCEPT !.pc = "returned", !.deleteCalls = 1,
                                     !.result = ToolResult("structured", TRUE)]
                /\ dbDelete(name, id)
           ELSE /\ tool' = [t EXCEPT !.pc = "elicitInput"]
                /\ UNCHANGED <<storeVars, busVars>>
    /\ UNCHANGED <<videos, uriSubscriptions, enabled, rec, job, older, fan>>

\* the client answers the elicitation request
elicitAnswered(result) ==
    /\ tool.pc = "elicitInput" /\ Quiescent
    /\ IF isConfirmed(result)
       THEN /\ tool' = [tool EXCEPT !.pc = "returned", !.answer = result,
                                    !.deleteCalls = 1,
                                    !.result = ToolResult("structured", TRUE)]
            /\ dbDelete(tool.name, tool.id)
       ELSE /\ tool' = [tool EXCEPT !.pc = "returned", !.answer = result,
                                    !.result = ToolResult("structured", FALSE)]
            /\ UNCHANGED <<storeVars, busVars>>
    /\ UNCHANGED <<videos, uriSubscriptions, enabled, rec, job, older, fan>>

\* the elicitation request fails: elicitInput rejects and so does the handler
elicitRejected ==
    /\ tool.pc = "elicitInput"
    /\ tool' = [tool EXCEPT !.pc = "returned", !.answer = ElicitError, !.result = ToolError]
    /\ UNCHANGED <<storeVars, videos, uriSubscriptions, enabled, busVars, rec, job, older, fan>>

\* the inputs of create_entry: the tag ids of entry.tags
TagInputs == {<<>>} \cup {<<t>> : t \in TagIds}

\* the handler of create_entry up to the end of agent.db.createEntry
create_entry(tagIds) ==
    /\ ToolFree /\ Quiescent /\ rec.pc = "idle"
    /\ nextEntryId <= MaxEntryId
    /\ entries' = entries \cup {nextEntryId}
    /\ nextEntryId' = nextEntryId + 1
    /\ Dispatch(ChangeSet(<<nextEntryId>>, <<>>))
    /\ tool' = [IdleTool EXCEPT !.name = "create_entry", !.pc = "addTagToEntry",
                                !.id = nextEntryId, !.todo = tagIds]
    /\ UNCHANGED <<tags, nextTagId, entryTags, videos, uriSubscriptions, enabled, rec, job, older, fan>>

\* for (const tagId of entry.tags) await agent.db.addTagToEntry(...): a tag id
\* that is no tag makes the call, and the handler, reject
createEntryAddTag ==
    /\ tool.pc = "addTagToEntry" /\ Quiescent
    /\ tool.todo # <<>>
    /\ LET tagId == Head(tool.todo)
       IN  IF tagId \notin DOMAIN tags \/ tool.id \notin entries
           THEN /\ tool' = [tool EXCEPT !.pc = "returned", !.result = ToolError]
                /\ UNCHANGED <<storeVars, busVars>>
           ELSE /\ tool' = [tool EXCEPT !.todo = Tail(@)]
                /\ entryTags' = entryTags \cup {<<tool.id, tagId>>}
                /\ Dispatch(ChangeSet(<<tool.id>>, <<tagId>>))
                /\ UNCHANGED <<entries, nextEntryId, tags, nextTagId>>
    /\ UNCHANGED <<videos, uriSubscriptions, enabled, rec, job, older, fan>>

\* a handler that awaits the reconciliation before it returns
afterSuggestAwaited(t) == [t EXCEPT !.pc = "suggestTagsSampling"]

\* void suggestTagsSampling(agent, createdEntry.id)
\* return {structuredContent: {entry: createdEntry}, ...}
afterSuggest(t) ==
    [t EXCEPT !.pc = "returned", !.result = ToolResult("structured", TRUE)]

\* the end of the handler of create_entry: suggestTagsSampling runs up to its
\* first await and the handler returns
createEntryReturn(sampling) ==
    /\ tool.pc = "addTagToEntry"
    /\ tool.todo = <<>>
    /\ rec' = [IdleRec EXCEPT !.pc = IF sampling THEN "getEntry" ELSE "skipped",
                               !.entryId = tool.id]
    /\ tool' = afterSuggest(tool)
    /\ UNCHANGED <<storeVars, videos, uriSubscriptions, enabled, busVars, job, older, fan>>

\* ---------------------------------------------------------- specification
\* ------------------------------------------------------------------
\* Tool calls of other requests that are handled while suggestTagsSampling,
\* started unawaited by create_entry, has made its reads and awaits the
\* sampling response
\* ------------------------------------------------------------------
RecSuspended == rec.pc = "createMessage"

\* delete_entry / delete_tag of a client without the elicitation capability:
\* the row is found and deleted
concurrentDelete(name, id) ==
    /\ RecSuspended /\ Quiescent
    /\ Present(name, id)
    /\ dbDelete(name, id)
    /\ UNCHANGED <<videos, uriSubscriptions, enabled, rec, job, tool, older, fan>>

\* create_tag: await agent.db.createTag(tag)
concurrentCreateTag(name) ==
    /\ RecSuspended /\ Quiescent
    /\ nextTagId <= MaxTagId + 1
    /\ ~NameInUse(name)
    /\ tags' = Put(tags, nextTagId, name)
    /\ nextTagId' = nextTagId + 1
    /\ Dispatch(ChangeSet(<<>>, <<nextTagId>>))
    /\ UNCHANGED <<entries, nextEntryId, entryTags, videos, uriSubscriptions, enabled, rec, job, tool, older, fan>>

\* ==================================================================
\* A write whose ChangeSet is dispatched while the updateResources call of
\* an earlier ChangeSet is suspended on a read
\* ==================================================================
\* storage invokes the listeners again: the suspended updateResources call
\* stays in flight and a new one runs up to its first read
DispatchOverlapping(ch) ==
    /\ upd.pc # "idle" /\ older.pc = "idle" /\ run.pc = "idle"
    /\ older' = upd
    /\ Dispatch(ch)

overlappingCreateEntry ==
    /\ nextEntryId <= MaxEntryId
    /\ entries' = entries \cup {nextEntryId}
    /\ nextEntryId' = nextEntryId + 1
    /\ DispatchOverlapping(ChangeSet(<<nextEntryId>>, <<>>))
    /\ UNCHANGED <<tags, nextTagId, entryTags, videos, uriSubscriptions, enabled, rec, job, tool, fan>>

overlappingDeleteEntry(id) ==
    /\ id \in entries
    /\ entries' = entries \ {id}
    /\ entryTags' = {l \in entryTags : l[1] # id}
    /\ DispatchOverlapping(ChangeSet(<<id>>, <<>>))
    /\ UNCHANGED <<nextEntryId, tags, nextTagId, videos, uriSubscriptions, enabled, rec, job, tool, fan>>

overlappingCreateTag(name) ==
    /\ nextTagId <= MaxTagId
    /\ ~NameInUse(name)
    /\ tags' = Put(tags, nextTagId, name)
    /\ nextTagId' = nextTagId + 1
    /\ DispatchOverlapping(ChangeSet(<<>>, <<nextTagId>>))
    /\ UNCHANGED <<entries, nextEntryId, entryTags, videos, uriSubscriptions, enabled, rec, job, tool, fan>>

overlappingDeleteTag(id) ==
    /\ id \in DOMAIN tags
    /\ tags' = Remove(tags, id)
    /\ entryTags' = {l \in entryTags : l[2] # id}
    /\ DispatchOverlapping(ChangeSet(<<>>, <<id>>))
    /\ UNCHANGED <<entries, nextEntryId, nextTagId, videos, uriSubscriptions, enabled, rec, job, tool, fan>>

\* the read that the earlier updateResources call awaits is over: the call
\* goes on to its next read or, after listVideos, sets the flags from the
\* counts it has read
olderResume ==
    /\ older.pc # "idle"
    /\ CASE older.pc = "getEntries" ->
              /\ older' = [older EXCEPT !.pc = "getTags", !.nEntries = Cardinality(entries)]
              /\ UNCHANGED <<enabled, flips>>
         [] older.pc = "getTags" ->
              /\ older' = [older EXCEPT !.pc = "listVideos", !.nTags = Cardinality(DOMAIN tags)]
              /\ UNCHANGED <<enabled, flips>>
         [] older.pc = "listVideos" ->
              LET r == updateResources(enabled, older.nEntries, older.nTags, Cardinality(videos))
              IN  /\ enabled' = r.enabled
                  /\ flips' = flips + r.calls
                  /\ older' = IdleUpd
    /\ UNCHANGED <<storeVars, videos, uriSubscriptions, upd, run, changes,
                   updated, listChanged, stable, rec, job, tool, fan>>

\* ==================================================================
\* Video-change source of the video module: subscribe, notifySubscribers
\* ==================================================================
Listeners == 1..MaxListeners

\* what a subscriber does when it is called: it returns, it throws, it calls
\* the unsubscribe function of a subscriber, or it subscribes one
Behaviour(kind, target) == [kind |-> kind, target |-> target]
Returns == Behaviour("returns", 0)
Throws == Behaviour("throws", 0)
Behaviours ==
    {Returns, Throws}
      \cup {Behaviour(k, l) : k \in {"unsubscribes", "subscribes"}, l \in Listeners}

\* the error a subscriber threw
ListenerError == Outcome("listener", NoClose)

\* const subscribers = new Set<() => void>(), in insertion order, and the
\* last notifySubscribers() call: the Set when it started, the subscribers it
\* called and how the createWrappedVideo call that made it settled
IdleFan ==
    [subscribers |-> <<>>, does |-> [l \in Listeners |-> Returns],
     atStart |-> <<>>, invoked |-> <<>>, outcome |-> NoOutcome]

\* Set.delete
SetDelete(q, x) == SelectSeq(q, LAMBDA y : y # x)

\* the position of x in q, 0 if it is not in q
IndexOf(q, x) ==
    IF x \in Range(q) THEN CHOOSE i \in 1..Len(q) : q[i] = x ELSE 0

RECURSIVE forOf(_, _, _, _)
\* for (const subscriber of subscribers) { subscriber() }: the iterator
\* walks the Set itself; `visited` entries are behind it. An entry deleted
\* behind the iterator moves it back, an entry deleted ahead of it is never
\* reached, an entry added is reached at the end. A subscriber that throws
\* ends the loop.
forOf(subs, visited, invoked, does) ==
    IF visited >= Len(subs)
    THEN [subscribers |-> subs, invoked |-> invoked, threw |-> FALSE]
    ELSE LET l == subs[visited + 1]
             called == Append(invoked, l)
             p == IndexOf(subs, does[l].target)
         IN  CASE does[l].kind = "throws" ->
                    [subscribers |-> subs, invoked |-> called, threw |-> TRUE]
               [] does[l].kind = "returns" ->
                    forOf(subs, visited + 1, called, does)
               [] does[l].kind = "subscribes" ->
                    forOf(SetAdd(subs, does[l].target), visited + 1, called, does)
               [] does[l].kind = "unsubscribes" ->
                    forOf(SetDelete(subs, does[l].target),
                          IF p # 0 /\ p <= visited + 1 THEN visited ELSE visited + 1,
                          called, does)

\* subscribe(subscriber): subscribers.add(subscriber)
subscribeToVideoChanges(l, b) ==
    /\ l \notin Range(fan.subscribers)
    /\ fan' = [IdleFan EXCEPT !.subscribers = SetAdd(fan.subscribers, l),
                              !.does = [fan.does EXCEPT ![l] = b]]
    /\ UNCHANGED <<storeVars, videos, uriSubscriptions, enabled, busVars, rec, job, tool, older>>

\* the function subscribe returned: subscribers.delete(subscriber)
unsubscribeFromVideoChanges(l) ==
    /\ l \in Range(fan.subscribers)
    /\ fan' = [IdleFan EXCEPT !.subscribers = SetDelete(fan.subscribers, l),
                              !.does = [fan.does EXCEPT ![l] = Returns]]
    /\ UNCHANGED <<storeVars, videos, uriSubscriptions, enabled, busVars, rec, job, tool, older>>

\* the end of a real render whose subprocess exited with status 0:
\* notifySubscribers(), then return videoUri; an error that a subscriber
\* throws leaves notifySubscribers and createWrappedVideo
notifyAndReturn ==
    /\ LET r == forOf(fan.subscribers, 0, <<>>, fan.does)
       IN  fan' = [subscribers |-> r.subscribers,
                   does |-> [l \in Listeners |->
                               IF l \in Range(r.subscribers) THEN fan.does[l] ELSE Returns],
                   atStart |-> fan.subscribers,
                   invoked |-> r.invoked,
                   outcome |-> IF r.threw THEN ListenerError ELSE UriOutcome]
    /\ UNCHANGED <<storeVars, videos, uriSubscriptions, enabled, busVars, rec, job, tool, older>>

Init ==
    /\ entries = {} /\ nextEntryId = 1
    /\ tags = <<>> /\ nextTagId = 1
    /\ entryTags = {}
    /\ videos \in SUBSET VideoNames
    /\ uriSubscriptions = {}
    /\ enabled = updateResources(
           [tagListResource |-> TRUE, tagsResource |-> TRUE,
            entryResource |-> TRUE, videoResource |-> TRUE],
           0, 0, Cardinality(videos)).enabled
    /\ upd = IdleUpd /\ run = IdleRun
    /\ changes = NoChange /\ updated = <<>> /\ listChanged = 0 /\ flips = 0
    /\ stable = {}
    /\ rec = IdleRec
    /\ job = IdleJob
    /\ tool = IdleTool
    /\ older = IdleUpd
    /\ fan = IdleFan

Next ==
    \/ createEntry
    \/ \E id \in EntryIds : updateEntry(id)
    \/ \E id \in EntryIds : deleteEntry(id)
    \/ createTag(NameFor(nextTagId))
    \/ \E id \in TagIds : updateTag(id)
    \/ \E id \in TagIds : deleteTag(id)
    \/ \E e \in EntryIds, t \in TagIds : addTagToEntry(e, t)
    \/ updGetEntries
    \/ updGetTags
    \/ updListVideos
    \/ listenerResume
    \/ videoListenerListed
    \/ \E uri \in URIs : subscribe(uri)
    \/ \E uri \in URIs : unsubscribe(uri)
    \/ \E video \in VideoNames : videoChanged(video)

Spec == Init /\ [][Next]_vars

NextReconcile ==
    \/ createEntry
    \/ createTag(NameFor(nextTagId))
    \/ \E id \in TagIds : deleteTag(id)
    \/ \E e \in EntryIds, t \in TagIds : addTagToEntry(e, t)
    \/ updGetEntries
    \/ updGetTags
    \/ updListVideos
    \/ \E e \in EntryIds, sampling \in BOOLEAN : recStart(e, sampling)
    \/ recGetEntry
    \/ recGetTags
    \/ recGetEntryTags
    \/ \E r \in Responses : recCreateMessage(r)
    \/ recCreateTag
    \/ recAddTagToEntry
    \/ recFinish

SpecReconcile == Init /\ [][NextReconcile]_vars

\* the video URIs the client subscribes to
VideoURIs == {VideoUri(video) : video \in VideoNames}

NextRender ==
    \/ \E impl \in Impls, aborted \in BOOLEAN :
          \/ createWrappedVideo(impl, "real", aborted, 0, FALSE)
          \/ \E limit \in (IF impl = "video" THEN MockTimes ELSE WaitTimes),
                short \in (IF impl = "video" THEN BOOLEAN ELSE {FALSE}) :
                createWrappedVideo(impl, "mock", aborted, limit, short)
    \/ abort
    \/ timerFired
    \/ mkdirDone
    \/ \E m \in Markers : stderrData(m)
    \/ \E ev \in {CloseEvent(e, c) : e \in BOOLEAN, c \in ExitCodes} : ffmpegClose(ev)
    \/ videoListenerListed
    \/ listenerResume
    \/ \E uri \in VideoURIs : subscribe(uri)
    \/ \E uri \in VideoURIs : unsubscribe(uri)

SpecRender == Init /\ [][NextRender]_vars

NextTools ==
    \/ \E tagIds \in TagInputs : create_entry(tagIds)
    \/ createEntryAddTag
    \/ \E sampling \in BOOLEAN : createEntryReturn(sampling)
    \/ createTag(NameFor(nextTagId))
    \/ \E name \in DeleteTools, id \in EntryIds \cup TagIds, elicitation \in BOOLEAN :
          deleteTool(name, id, elicitation)
    \/ \E result \in ElicitResults : elicitAnswered(result)
    \/ elicitRejected
    \/ updGetEntries
    \/ updGetTags
    \/ updListVideos
    \/ recGetEntry
    \/ recGetTags
    \/ recGetEntryTags
    \/ \E r \in Responses : recCreateMessage(r)
    \/ recCreateTag
    \/ recAddTagToEntry
    \/ recFinish

SpecTools == Init /\ [][NextTools]_vars

\* reconciliation with tool calls of other requests in between
NextInterleave ==
    \/ createEntry
    \/ createTag(NameFor(nextTagId))
    \/ updGetEntries
    \/ updGetTags
    \/ updListVideos
    \/ \E e \in EntryIds : recStart(e, TRUE)
    \/ recGetEntry
    \/ recGetTags
    \/ recGetEntryTags
    \/ \E r \in Responses : recCreateMessage(r)
    \/ recCreateTag
    \/ recAddTagToEntry
    \/ recFinish
    \/ \E name \in DeleteTools, id \in EntryIds \cup TagIds : concurrentDelete(name, id)
    \/ \E name \in Names : concurrentCreateTag(name)

SpecInterleave == Init /\ [][NextInterleave]_vars

\* writes that do not wait for the updateResources call of the write before
NextOverlap ==
    \/ createEntry
    \/ \E id \in EntryIds : deleteEntry(id)
    \/ createTag(NameFor(nextTagId))
    \/ \E id \in TagIds : deleteTag(id)
    \/ updGetEntries
    \/ updGetTags
    \/ updListVideos
    \/ overlappingCreateEntry
    \/ \E id \in EntryIds : overlappingDeleteEntry(id)
    \/ overlappingCreateTag(NameFor(nextTagId))
    \/ \E id \in TagIds : overlappingDeleteTag(id)
    \/ olderResume

SpecOverlap == Init /\ [][NextOverlap]_vars

\* the video-change source with subscribers of any behaviour
NextFanout ==
    \/ \E l \in Listeners, b \in Behaviours : subscribeToVideoChanges(l, b)
    \/ \E l \in Listeners : unsubscribeFromVideoChanges(l)
    \/ notifyAndReturn

SpecFanout == Init /\ [][NextFanout]_vars

\* ==================================================================
\* Properties of the change fan-out (specification Spec)
\* ==================================================================
ChangedUris(ch) ==
    {EntryUri(ch.entries[i]) : i \in 1..Len(ch.entries)}
      \cup {TagUri(ch.tags[i]) : i \in 1..Len(ch.tags)}

\* the predicate of each entry/tag resource over the current counts
Target ==
    [tagListResource |-> DOMAIN tags # {},
     tagsResource |-> DOMAIN tags # {},
     entryResource |-> entries # {}]

\* the notifications a step sends
DispatchStep ==
    \/ upd.pc = "idle" /\ upd'.pc = "getEntries"
    \/ run.pc = "idle" /\ run'.pc = "listVideos"
Emitted ==
    IF DispatchStep THEN updated'
    ELSE IF run.pc # "idle" THEN SubSeq(updated', Len(updated) + 1, Len(updated'))
    ELSE <<>>

\* C1: for a ChangeSet, no URI is notified twice, and once the subscription
\* listener has finished, every changed URI that stayed subscribed while the
\* ChangeSet was processed has been notified exactly once, in a message of
\* its own.
C1_OnePerSubscribedUri ==
    changes.kind = "db" =>
        /\ \A i \in 1..Len(updated) : Count(updated, updated[i].uri) = 1
        /\ run.pc = "idle" =>
             \A u \in stable \cap ChangedUris(changes) : Count(updated, u) = 1

\* C1 witness: one ChangeSet changed a subscribed entry and a subscribed tag
\* and each got its own notification
C1_Witness ==
    /\ run.pc = "idle" /\ changes.kind = "db"
    /\ Len(changes.entries) = 1 /\ Len(changes.tags) = 1
    /\ ChangedUris(changes) \subseteq stable
    /\ updated = <<EntryItem(changes.entries[1]), TagItem(changes.tags[1])>>

\* C2: every update notification a step sends carries a URI that is in the
\* subscribed set when the step processes the change.
C2_OnlySubscribed ==
    [][\A i \in 1..Len(Emitted) : Emitted[i].uri \in uriSubscriptions]_vars

\* C2 witness: a ChangeSet changed an entry whose URI is not subscribed and a
\* tag whose URI is; only the tag was notified
C2_Witness ==
    /\ run.pc = "idle" /\ changes.kind = "db"
    /\ changes.entries = <<1>> /\ changes.tags = <<1>>
    /\ EntryUri(1) \notin uriSubscriptions
    /\ TagUri(1) \in stable
    /\ updated = <<TagItem(1)>>

\* C3: when a ChangeSet has settled (updateResources and the subscription
\* listener have finished), the tag-list, tag and entry resources are enabled
\* exactly when a tag, respectively an entry, exists.
C3_FlagsMatchCounts ==
    Quiescent =>
        /\ enabled.tagListResource = Target.tagListResource
        /\ enabled.tagsResource = Target.tagsResource
        /\ enabled.entryResource = Target.entryResource

\* C3 witness: the last tag was deleted while an entry exists, and the
\* ChangeSet of the delete has settled
C3_Witness ==
    /\ Quiescent /\ changes.kind = "db" /\ Len(changes.tags) = 1
    /\ nextTagId > 1 /\ DOMAIN tags = {} /\ entries # {}
    /\ ~enabled.tagsResource /\ enabled.entryResource

\* C4: a ChangeSet for which updateResources enabled or disabled at least
\* one resource has exactly one resources list-changed notification.
C4_OneListChangedPerFlippingBatch ==
    (changes.kind = "db" /\ flips > 0) => listChanged = 1

\* C4 witness: a ChangeSet flipped two resources and one notification was sent
C4_Witness ==
    Quiescent /\ changes.kind = "db" /\ flips >= 2 /\ listChanged = 1

\* C5 as stated: a settled ChangeSet that flipped no resource has no
\* resources list-changed notification.
C5_NoFlipNoListChanged ==
    (Quiescent /\ changes.kind = "db" /\ flips = 0) => listChanged = 0

\* C5 amended: when updateResources finds every resource already in the state
\* its predicate requires, it calls neither enable() nor disable() and leaves
\* the flags alone; the ChangeSet still has exactly one resources
\* list-changed notification.
C5_NoFlipNoCallsOneListChanged ==
    [][(/\ upd.pc = "listVideos" /\ upd'.pc = "idle"
        /\ changes.kind = "db"
        /\ enabled.tagListResource = Target.tagListResource
        /\ enabled.tagsResource = Target.tagsResource
        /\ enabled.entryResource = Target.entryResource
        /\ enabled.videoResource = (videos # {}))
       => (flips' = 0 /\ enabled' = enabled /\ listChanged' = 1)]_vars

\* C5 witness: the ChangeSet of an entry update (or of a second tag) has
\* settled without a flip and with one list-changed notification
C5_Witness ==
    /\ Quiescent /\ changes.kind = "db" /\ flips = 0 /\ listChanged = 1
    /\ (entries # {} \/ Cardinality(DOMAIN tags) = 2)

\* ==================================================================
\* Properties of the reconciliation (specification SpecReconcile)
\* ==================================================================
Elems == rec.modelResponse.elems
IsArray == rec.modelResponse.json /\ rec.modelResponse.array
HasBadElement == IsArray /\ \E i \in 1..Len(Elems) : Elems[i].kind = "bad"
Attached == getEntryTags(rec.entryId)
NewRows == DOMAIN tags \ DOMAIN rec.existingTags
RefsOf(q) == {q[i].id : i \in {j \in 1..Len(q) : q[j].kind = "id"}}
NamesOf(q) == {i \in 1..Len(q) : q[i].kind = "name"}
Answered ==
    rec.pc \notin {"idle", "skipped", "getEntry", "getTags", "getEntryTags", "createMessage"}

\* the response holds only references to existing tags that are not attached
\* and new-tag suggestions whose names are unused and pairwise distinct
C6_Case ==
    /\ IsArray
    /\ \A i \in 1..Len(Elems) :
         \/ /\ Elems[i].kind = "id"
            /\ Elems[i].id \in DOMAIN rec.existingTags
            /\ Elems[i].id \notin rec.currentTags
         \/ /\ Elems[i].kind = "name"
            /\ \A t \in DOMAIN rec.existingTags : rec.existingTags[t] # Elems[i].name
            /\ \A j \in 1..Len(Elems) :
                 (Elems[j].kind = "name" /\ Elems[j].name = Elems[i].name) => j = i

\* C6: for a response of references to existing unattached tags and of new
\* names that are unused and pairwise distinct, the reconciliation ends
\* normally with one createTag call and one new tag row per new name, and
\* the entry's tags are its previous tags plus the referenced ids plus the
\* ids of the new rows.
C6_ReconcileAttachesRefsAndCreated ==
    (Terminal /\ C6_Case) =>
        /\ rec.pc = "done"
        /\ Len(rec.createCalls) = Cardinality(NamesOf(Elems))
        /\ Cardinality(NewRows) = Cardinality(NamesOf(Elems))
        /\ \A t \in NewRows : \E i \in NamesOf(Elems) : tags[t] = Elems[i].name
        /\ \A t \in DOMAIN rec.existingTags : t \in DOMAIN tags /\ tags[t] = rec.existingTags[t]
        /\ Attached = rec.currentTags \cup RefsOf(Elems) \cup NewRows

\* C6 witness: [{id: existing}, {name: "brandnew"}] against an entry with no
\* tags ended with 2 attached tags and 1 new row named "brandnew"
C6_Witness ==
    /\ rec.pc = "done"
    /\ Elems = <<Element("id", 1, ""), Element("name", 0, "brandnew")>>
    /\ 1 \in DOMAIN rec.existingTags /\ rec.currentTags = {}
    /\ Cardinality(Attached) = 2
    /\ Cardinality(NewRows) = 1
    /\ \A t \in NewRows : tags[t] = "brandnew"

\* C7: when the response text is not JSON, the reconciliation makes no
\* createTag and no addTagToEntry call, and the tags and the entry's
\* attachments are what they were when it started.
C7_MalformedWritesNothing ==
    (Answered /\ ~rec.modelResponse.json) =>
        /\ rec.createCalls = <<>> /\ rec.addCalls = <<>>
        /\ tags = rec.existingTags
        /\ Attached = rec.currentTags

\* C7 witness: a response that is not JSON was received for an entry that
\* has a tag, while another tag exists
C7_Witness ==
    /\ Terminal /\ ~rec.modelResponse.json
    /\ rec.currentTags # {} /\ DOMAIN rec.existingTags \ rec.currentTags # {}

\* C8: when the response text is not JSON, the failure is logged and
\* suggestTagsSampling does not reject.
C8_MalformedDoesNotReject ==
    (Terminal /\ ~rec.modelResponse.json) => (rec.logged /\ rec.pc # "rejected")

C10_AttachedIdsExistNoDuplicates ==
    /\ NoDuplicates(rec.idsToAdd)
    /\ NoDuplicates(rec.addCalls)
    /\ Range(rec.addCalls) \subseteq Range(rec.idsToAdd)
    /\ \A t \in Range(rec.idsToAdd) :
         /\ t \in DOMAIN tags
         /\ t \notin DOMAIN rec.existingTags => t \in rec.createdIds

\* C10 witness: the response referred to an existing tag and to an id that
\* is no tag; only the existing one was attached
C10_Witness ==
    /\ rec.pc = "done" /\ IsArray
    /\ \E t \in RefsOf(Elems) : t \notin DOMAIN tags
    /\ Len(rec.addCalls) = 1
    /\ Range(rec.addCalls) \subseteq DOMAIN rec.existingTags

\* C11: no step of the reconciliation calls createTag with a name that
\* belongs to a tag in storage when the call is made, whatever the response
\* (one that repeats a new name included).
C11_NoCreateTagForNameInUse ==
    [][(rec.pc = "createTag" /\ Len(rec'.createCalls) = Len(rec.createCalls) + 1)
       => ~NameInUse(rec'.createCalls[Len(rec'.createCalls)])]_vars

\* C27: within one reconciliation every createTag call is made before the
\* first addTagToEntry call, and a reconciliation whose parsing, validation
\* or createTag call failed makes no addTagToEntry call.
C27_CreateBeforeAttachAndNoAttachAfterFailure ==
    /\ [](rec.logged => (rec.pc = "rejected" /\ rec.addCalls = <<>>))
    /\ [][/\ rec'.createCalls # rec.createCalls
             => (rec.addCalls = <<>> /\ rec'.addCalls = <<>>)
          /\ rec.pc = "rejected" => rec'.addCalls = rec.addCalls]_vars

\* C27 witness: the second createTag call failed after the first one had
\* created a tag; its id is waiting to be attached and no id was
C27_Witness ==
    /\ rec.pc = "rejected" /\ rec.logged
    /\ Len(rec.createCalls) = 2 /\ rec.createdIds # {}
    /\ rec.idsToAdd # <<>> /\ rec.addCalls = <<>>

\* C28: with tool calls of other requests in between, a reconciliation makes
\* no addTagToEntry call for an entry or a tag that does not exist when the
\* call is made, and no createTag call for a name that another request has
\* given to a tag in the meantime.
C28_NoCallOnStaleSnapshot ==
    [][/\ Len(rec'.addCalls) > Len(rec.addCalls)
             => (/\ rec.entryId \in entries
                 /\ rec'.addCalls[Len(rec'.addCalls)] \in DOMAIN tags)
       /\ (/\ Len(rec'.createCalls) > Len(rec.createCalls)
           /\ rec'.createCalls[Len(rec'.createCalls)] \notin Range(rec.createCalls))
             => ~NameInUse(rec'.createCalls[Len(rec'.createCalls)])]_vars

\* ==================================================================
\* Properties of the render pipeline (specification SpecRender)
\* ==================================================================
Eq(p, q) == p.num * q.den = q.num * p.den
NonDecreasing(q) == \A i \in 1..(Len(q) - 1) : Leq(q[i], q[i + 1])
StrictlyIncreases(q) == \E i \in 1..(Len(q) - 1) : Less(q[i], q[i + 1])
Last(q) == q[Len(q)]

C13_CancelBeforeFinalStepRejects ==
    (job.mode = "mock" /\ job.aborted /\ Settled) =>
        /\ job.outcome = Cancelled
        /\ \A i \in 1..Len(job.progress) : ~Eq(job.progress[i], One)

\* C14: when the close event of the subprocess is handled after the request
\* was cancelled, the call rejects with Cancelled and the handler reports no
\* progress, whatever the exit status.
C14_CancelWinsCloseRace ==
    [][(job.pc = "running" /\ job'.close.seen /\ job.aborted)
       => (/\ job'.pc = "rejected" /\ job'.outcome = Cancelled
           /\ job'.progress = job.progress)]_vars

\* C14 witness: the subprocess exited with status 0 although it had been
\* killed on cancellation, and the call rejected with Cancelled
C14_Witness ==
    /\ job.mode = "real" /\ job.killed
    /\ job.close = CloseEvent(TRUE, 0)
    /\ job.outcome = Cancelled

\* C15: in both implementations, a real render that returned the URI has
\* reported progress 1 as its last value.
C15_RealSuccessReportsOne ==
    (job.mode = "real" /\ job.outcome = UriOutcome) =>
        (Len(job.progress) > 0 /\ Eq(Last(job.progress), One))

\* C16: an exit with a status other than 0 of a render that is not cancelled
\* rejects the call with the failure that carries the exit status; the
\* outcome is neither Cancelled nor the URI.
C16_NonZeroExitFails ==
    (job.close.seen /\ ~job.aborted /\ job.close.exited /\ job.close.code # 0) =>
        /\ job.pc = "rejected"
        /\ job.outcome.kind = "failed"
        /\ job.outcome.close.code = job.close.code
        /\ job.outcome # Cancelled /\ job.outcome # UriOutcome

\* C16 witness: a render of the tools module failed with exit status 2 after
\* it had reported progress
C16_Witness ==
    /\ job.impl = "tools" /\ ~job.aborted
    /\ job.outcome = exitError(CloseEvent(TRUE, 2))
    /\ Len(job.progress) > 0

\* C20: every value passed to onProgress, in mock and in real mode, is at
\* least 0 and at most 1.
C20_ProgressInUnitInterval ==
    \A i \in 1..Len(job.progress) :
        /\ job.progress[i].den > 0
        /\ Leq(Zero, job.progress[i])
        /\ Leq(job.progress[i], One)

\* C20 witness: the subprocess printed a time beyond the total duration and
\* the value reported while it is still running is 1
C20_Witness ==
    /\ job.mode = "real" /\ job.pc = "running"
    /\ \E i \in 1..Len(job.progress) : Eq(job.progress[i], One)

\* C24: when a render has produced the first video and the dispatch of its
\* video change has finished, the video resource is enabled.
C24_FirstVideoEnablesVideoResource ==
    (job.mode = "real" /\ job.outcome = UriOutcome /\ changes = VideoChange
       /\ Quiescent /\ videos # {})
        => enabled.videoResource

\* C25: the step in which a render, simulated or real, settles with the URI
\* triggers the video-change source: the list-changed listener has run once
\* and the video listener of the subscriptions has been started.
C25_SuccessTriggersVideoChange ==
    [][(job'.outcome = UriOutcome /\ job.outcome # UriOutcome)
       => (/\ changes' = VideoChange
           /\ listChanged' = sendResourceListChanged(0)
           /\ run'.pc = "listVideos")]_vars

\* C29: the update notifications that the video change of a render causes
\* are all for the URI of the video that the render produced.
C29_OnlyChangedVideoNotified ==
    (changes = VideoChange /\ job.outcome = UriOutcome) =>
        \A i \in 1..Len(updated) : updated[i].uri = VideoUri(videoFilename)

\* C26: a real render whose request was cancelled before its subprocess
\* ended has killed the subprocess.
C26_CancelledSubprocessIsKilled ==
    (job.mode = "real" /\ job.aborted /\ job.close.seen) => job.killed

\* a step that is a new call of createWrappedVideo
NewCall ==
    \E impl \in Impls, mode \in Modes, aborted \in BOOLEAN,
       limit \in MockTimes \cup WaitTimes \cup {0}, short \in BOOLEAN :
       createWrappedVideo(impl, mode, aborted, limit, short)

\* C30: a mock render terminates: every timer wait after which the loop
\* goes on has advanced the loop variable towards the duration, a settled
\* mock render has the URI or Cancelled as its outcome, and a settled render
\* passes no more values to onProgress.
C30_MockRenderTerminates ==
    /\ []((job.mode = "mock" /\ Settled) => job.outcome \in {UriOutcome, Cancelled})
    /\ [][/\ (/\ job.mode = "mock" /\ job.pc = "timer" /\ job'.pc = "timer"
              /\ job'.progress # job.progress)
                => (job.i < job'.i /\ job'.i < job'.limit)
          /\ (Settled /\ ~NewCall) => job'.progress = job.progress]_vars

\* ==================================================================
\* Properties of the tool calls (specification SpecTools)
\* ==================================================================
Allowed ==
    \/ ~tool.elicitation
    \/ tool.answer.action = "accept" /\ tool.answer.confirmed = "true"

\* C17: a delete_entry or delete_tag call for an entity that exists calls the
\* storage delete exactly when the client has no elicitation capability or
\* answered accept with confirmed true; then the result has success true and
\* the entity is gone.  On any other answer the entity is still present and
\* the result has success false.
C17_DeleteIffConfirmed ==
    (tool.name \in DeleteTools /\ tool.pc = "returned" /\ tool.found) =>
        /\ tool.deleteCalls = 1 <=> Allowed
        /\ Allowed =>
             /\ tool.result = ToolResult("structured", TRUE)
             /\ ~Present(tool.name, tool.id)
        /\ (~Allowed /\ tool.answer \in ElicitResults) =>
             /\ tool.result = ToolResult("structured", FALSE)
             /\ Present(tool.name, tool.id)
        /\ tool.answer = ElicitError => Present(tool.name, tool.id)

\* C17 witness: the client declined the deletion of a tag with confirmed
\* true in the content; the tag is still there
C17_Witness ==
    /\ tool.name = "delete_tag" /\ tool.pc = "returned" /\ tool.found
    /\ tool.answer = ElicitResult("decline", "true")
    /\ tool.deleteCalls = 0
    /\ Present(tool.name, tool.id)

\* C18: from the moment suggestTagsSampling has been called for a created
\* entry, and whatever state the reconciliation is in (waiting for the
\* sampling response, ended, rejected), create_entry has returned its
\* successful result and the entry is stored.
C18_CreateEntryReturnsBeforeSampling ==
    (tool.name = "create_entry" /\ rec.pc # "idle") =>
        /\ tool.pc = "returned"
        /\ tool.result = ToolResult("structured", TRUE)
        /\ rec.entryId = tool.id
        /\ tool.id \in entries

\* C18 witness: create_entry has returned while the sampling response is
\* outstanding
C18_Witness ==
    /\ tool.name = "create_entry" /\ tool.pc = "returned"
    /\ tool.result = ToolResult("structured", TRUE)
    /\ rec.pc = "createMessage"

\* ==================================================================
\* Properties of the subscribed set (specification Spec)
\* ==================================================================
\* C19: subscribing a subscribed URI and unsubscribing a URI that is not
\* subscribed leave the set as it is, one unsubscribe after any number of
\* subscribes removes the URI, and no step sends an update notification for
\* a URI that is not in the set.
C19_SubscribeUnsubscribeIdempotent ==
    /\ [](\A u \in URIs :
            LET s == uriSubscriptions
                twice == uriAdd(uriAdd(s, u), u)
            IN  /\ u \in s => uriAdd(s, u) = s
                /\ u \notin s => uriDelete(s, u) = s
                /\ twice = uriAdd(s, u)
                /\ uriDelete(twice, u) = s \ {u})
    /\ [][\A u \in URIs : u \notin uriSubscriptions => Count(Emitted, u) = 0]_vars

\* C19 witness: a tag was updated while its URI is not subscribed and another
\* URI is; the ChangeSet has settled without a notification
C19_Witness ==
    /\ Quiescent /\ changes.kind = "db"
    /\ changes.tags = <<1>> /\ changes.entries = <<>>
    /\ TagUri(1) \notin uriSubscriptions /\ uriSubscriptions # {}
    /\ updated = <<>>

\* ==================================================================
\* Properties of overlapping recomputations (specification SpecOverlap)
\* ==================================================================
\* C23: when a ChangeSet was dispatched while the updateResources call of an
\* earlier one was suspended on a read, then once both calls have finished
\* every flag equals its predicate over the counts of the store.
C23_NoStaleFlagsAfterOverlap ==
    (upd.pc = "idle" /\ older.pc = "idle") =>
        /\ enabled.tagListResource = (DOMAIN tags # {})
        /\ enabled.tagsResource = (DOMAIN tags # {})
        /\ enabled.entryResource = (entries # {})
        /\ enabled.videoResource = (videos # {})

\* ==================================================================
\* Properties of the video-change source (specification SpecFanout)
\* ==================================================================
Dispatched == fan.outcome # NoOutcome

\* C21: when a subscriber throws during a dispatch, every other subscriber
\* is still called and the render that made the dispatch returns its URI.
C21_ThrowingListenerIsIsolated ==
    (/\ Dispatched
     /\ \A l \in Range(fan.atStart) : fan.does[l].kind \in {"returns", "throws"})
        => (/\ Range(fan.atStart) \subseteq Range(fan.invoked)
            /\ fan.outcome = UriOutcome)

\* C22: a dispatch in which no subscriber throws calls the subscribers that
\* were registered when it started, each exactly once and in the order of
\* their registration, whatever they subscribe or unsubscribe meanwhile.
C22_DispatchUsesSnapshot ==
    (Dispatched /\ fan.outcome = UriOutcome) => fan.invoked = fan.atStart

====
